---------------------------- MODULE Spec2Model ----------------------------
(***************************************************************************)
(* A model of the glyph-outline utilities of src/src/lib.rs: the BBox      *)
(* fold, the Outline with its lazily cached bounding box, the embolden     *)
(* sweep, the oblique shear, the path recorder (OutlineBuilder) and the    *)
(* path emitter (Outline::emit).                                           *)
(*                                                                         *)
(* Numbers.  The code computes in f32.  The model computes in exact        *)
(* rationals <<n, d>> (d > 0, lowest terms).  Operations whose operands    *)
(* and results are small integers or dyadic fractions are the same in f32  *)
(* and in the model, bit for bit.  The square root is taken only of        *)
(* squares of rationals: the embolden action is guarded by ExactEdges,     *)
(* which states that every edge the sweep measures has a rational length.  *)
(* Indices i, j, k, last are the code's 0-based indices; the TLA+          *)
(* sequence element of index i is points[i + 1].                           *)
(***************************************************************************)
EXTENDS Integers, Sequences, FiniteSets

VARIABLES
    contours,          \* Outline.contours: sequence of [verbs, points]
    cff,               \* Outline.cff: the winding flag
    bbox,              \* Outline.bbox: Cell<Option<BBox>>, <<>> is None, <<b>> is Some(b)
    current_contour,   \* OutlineBuilder.current_contour
    calls,             \* the calls fed to the recorder so far (the source's output)
    sink,              \* the calls the last emit made on its sink
    ret,               \* the value the last bbox() call returned
    hist,              \* the operations performed on the Outline, with their arguments
    prev,              \* the contours before the last operation
    sw                 \* the state of an embolden sweep over one contour

vars == <<contours, cff, bbox, current_contour, calls, sink, ret, hist, prev, sw>>

---------------------------------------------------------------------------
(* Exact rational arithmetic standing for f32 arithmetic.                  *)

Abs(n) == IF n < 0 THEN -n ELSE n

RECURSIVE Gcd(_, _)
Gcd(a, b) == IF b = 0 THEN a ELSE Gcd(b, a % b)

Norm(n, d) ==
    LET g == Gcd(Abs(n), Abs(d))
        s == IF d < 0 THEN -1 ELSE 1
    IN  <<(s * n) \div g, (s * d) \div g>>

F(n) == <<n, 1>>
Zero == F(0)
One == F(1)

Add(a, b) == Norm(a[1] * b[2] + b[1] * a[2], a[2] * b[2])
Sub(a, b) == Norm(a[1] * b[2] - b[1] * a[2], a[2] * b[2])
Mul(a, b) == Norm(a[1] * b[1], a[2] * b[2])
Div(a, b) == Norm(a[1] * b[2], a[2] * b[1])
Neg(a) == <<-a[1], a[2]>>
Le(a, b) == a[1] * b[2] <= b[1] * a[2]
Lt(a, b) == a[1] * b[2] < b[1] * a[2]
FMin(a, b) == IF Le(a, b) THEN a ELSE b
FMax(a, b) == IF Le(a, b) THEN b ELSE a
FAbs(a) == <<Abs(a[1]), a[2]>>

\* The largest r in lo..hi with r * r <= n (lo * lo <= n is given).
RECURSIVE RootIn(_, _, _)
RootIn(n, lo, hi) ==
    IF lo >= hi THEN lo
    ELSE LET mid == (lo + hi + 1) \div 2
         IN  IF mid * mid <= n THEN RootIn(n, mid, hi) ELSE RootIn(n, lo, mid - 1)

IRoot(n) == RootIn(n, 0, IF n < 46340 THEN n ELSE 46340)
IsSquare(n) == n >= 0 /\ IRoot(n) * IRoot(n) = n
HasSqrt(a) == IsSquare(a[1]) /\ IsSquare(a[2])
\* f32::sqrt: exact on the square of a rational (HasSqrt), rounded otherwise.
Sqrt(a) == <<IRoot(a[1]), IRoot(a[2])>>

---------------------------------------------------------------------------
(* Point, BBox.                                                            *)

Point(x, y) == [x |-> x, y |-> y]
PointDefault == Point(Zero, Zero)
P(x, y) == Point(F(x), F(y))

BBoxDefault == [x_min |-> Zero, y_min |-> Zero, x_max |-> Zero, y_max |-> Zero]

width(b) == Sub(b.x_max, b.x_min)
height(b) == Sub(b.y_max, b.y_min)

extend_by(b, x, y) ==
    [x_min |-> FMin(b.x_min, x), y_min |-> FMin(b.y_min, y),
     x_max |-> FMax(b.x_max, x), y_max |-> FMax(b.y_max, y)]

\* contours.iter().flat_map(|c| &c.points)
RECURSIVE FlatPoints(_)
FlatPoints(cs) ==
    IF cs = <<>> THEN <<>> ELSE Head(cs).points \o FlatPoints(Tail(cs))

\* contours.iter().flat_map(|c| &c.verbs)
RECURSIVE FlatVerbs(_)
FlatVerbs(cs) ==
    IF cs = <<>> THEN <<>> ELSE Head(cs).verbs \o FlatVerbs(Tail(cs))

RECURSIVE FoldBBox(_, _)
FoldBBox(b, ps) ==
    IF ps = <<>> THEN b
    ELSE FoldBBox(extend_by(b, Head(ps).x, Head(ps).y), Tail(ps))

\* The else branch of Outline::bbox: the fold from BBox::default().
ComputeBBox(cs) == FoldBBox(BBoxDefault, FlatPoints(cs))

---------------------------------------------------------------------------
(* The path recorder and the path emitter.                                 *)

ContourDefault == [verbs |-> <<>>, points |-> <<>>]

Call(v, a) == [verb |-> v, args |-> a]

\* OutlineBuilder::current_contour: the contours after the call (a contour
\* is pushed when the current one does not exist yet).
WithCurrent(cs, cc) == IF cc > Len(cs) THEN Append(cs, ContourDefault) ELSE cs

PushVerb(cs, cc, v, pts) ==
    LET cs1 == WithCurrent(cs, cc)
    IN  [cs1 EXCEPT ![cc] = [verbs |-> Append(@.verbs, v), points |-> @.points \o pts]]

Arity(v) ==
    CASE v = "MoveTo" -> 1
      [] v = "LineTo" -> 1
      [] v = "QuadTo" -> 2
      [] v = "CurveTo" -> 3
      [] v = "Close" -> 0

RECURSIVE Coords(_)
Coords(ps) == IF ps = <<>> THEN <<>> ELSE <<Head(ps).x, Head(ps).y>> \o Coords(Tail(ps))

\* Outline::emit: the verbs of all contours replayed against one cursor
\* over the points of all contours.
RECURSIVE EmitFrom(_, _)
EmitFrom(vs, ps) ==
    IF vs = <<>> THEN <<>>
    ELSE LET n == Arity(Head(vs))
         IN  <<Call(Head(vs), Coords(SubSeq(ps, 1, n)))>>
                 \o EmitFrom(Tail(vs), SubSeq(ps, n + 1, Len(ps)))

EmitCalls(cs) == EmitFrom(FlatVerbs(cs), FlatPoints(cs))

---------------------------------------------------------------------------
(* Outline::embolden: the sweep over one contour.                          *)

\* The threshold -0.9375 of the corner test.
Threshold == <<-15, 16>>

\* if idx < last { idx + 1 } else { 0 }
Advance(idx, last) == IF idx < last THEN idx + 1 ELSE 0

\* let closed = num_points > 1 && c.points.last() == c.points.first();
Closed(points) == Len(points) > 1 /\ points[Len(points)] = points[1]

\* let last = if closed { num_points - 2 } else { num_points - 1 };
LastIndex(points) == IF Closed(points) THEN Len(points) - 2 ELSE Len(points) - 1

\* Locals that are not reset for the contour: an incoming direction and an
\* anchor at index 0 are left over from an earlier contour.
SweepInitNotReset(points) ==
    [points |-> points, last |-> LastIndex(points),
     i |-> LastIndex(points), j |-> 0, k |-> <<0>>,
     in_pt |-> Point(One, Zero), in_len |-> One,
     anchor_pt |-> Point(One, Zero), anchor_len |-> One,
     visits |-> [n \in 1..Len(points) |-> 0], iters |-> 0, corner |-> <<>>]

\* The locals of the sweep as the while loop is first reached.  visits,
\* iters and corner are history fields: how often each point has been
\* translated, how many iterations of the outer loop have run, and what the
\* last iteration did at a corner.
SweepInit(points) ==
    [points |-> points, last |-> LastIndex(points),
     i |-> LastIndex(points), j |-> 0, k |-> <<>>,
     in_pt |-> PointDefault, in_len |-> Zero,
     anchor_pt |-> PointDefault, anchor_len |-> Zero,
     visits |-> [n \in 1..Len(points) |-> 0], iters |-> 0, corner |-> <<>>]

\* A loop that stops only when the trailing index meets the leading one.
LoopCondNoAnchor(st) == st.i # st.j

\* while i != j && Some(i) != k
LoopCond(st) == st.i # st.j /\ st.k # <<st.i>>

\* let d = (in_pt.x * out_pt.x) + (in_pt.y * out_pt.y);
Dot(in_pt, out_pt) == Add(Mul(in_pt.x, out_pt.x), Mul(in_pt.y, out_pt.y))

\* d > -0.9375
IsCorner(d) == Lt(Threshold, d)

\* let mut q = out_pt.x * in_pt.y - out_pt.y * in_pt.x; if !self.cff { q = -q; }
CrossQ(in_pt, out_pt, cff_) ==
    LET q == Sub(Mul(out_pt.x, in_pt.y), Mul(out_pt.y, in_pt.x))
    IN  IF ~cff_ THEN Neg(q) ELSE q

\* The rotation of the cubic-style winding, whatever the flag.
RotatedSumNoFlag(in_pt, out_pt, cff_) ==
    Point(Add(in_pt.y, out_pt.y), Neg(Add(in_pt.x, out_pt.x)))

\* The unit-vector sum rotated by a quarter turn, the way the flag says.
RotatedSum(in_pt, out_pt, cff_) ==
    IF cff_
    THEN Point(Add(in_pt.y, out_pt.y), Neg(Add(in_pt.x, out_pt.x)))
    ELSE Point(Neg(Add(in_pt.y, out_pt.y)), Add(in_pt.x, out_pt.x))

\* A miter that is not scaled by the strength.
ShiftPtUnscaled(in_pt, in_len, out_pt, out_len, cff_, strength) ==
    LET d == Dot(in_pt, out_pt)
        r == RotatedSum(in_pt, out_pt, cff_)
    IN  IF IsCorner(d)
        THEN Point(Div(r.x, Add(d, One)), Div(r.y, Add(d, One)))
        ELSE PointDefault

\* A miter that is never clamped to the shorter edge.
ShiftPtNoClamp(in_pt, in_len, out_pt, out_len, cff_, strength) ==
    LET d == Dot(in_pt, out_pt)
        r == RotatedSum(in_pt, out_pt, cff_)
    IN  IF IsCorner(d)
        THEN Point(Div(Mul(r.x, strength), Add(d, One)),
                   Div(Mul(r.y, strength), Add(d, One)))
        ELSE PointDefault

\* let shift_pt = if d > -0.9375 { ... } else { Point::default() };
ShiftPt(in_pt, in_len, out_pt, out_len, cff_, strength) ==
    LET d == Dot(in_pt, out_pt)
    IN  IF IsCorner(d)
        THEN LET d1 == Add(d, One)
                 q == CrossQ(in_pt, out_pt, cff_)
                 len == FMin(in_len, out_len)
                 r == RotatedSum(in_pt, out_pt, cff_)
             IN  IF Le(Mul(strength, q), Mul(len, d1))
                 THEN Point(Div(Mul(r.x, strength), d1), Div(Mul(r.y, strength), d1))
                 ELSE Point(Div(Mul(r.x, len), q), Div(Mul(r.y, len), q))
        ELSE PointDefault

\* pt.x += strength + shift_pt.x; pt.y += strength + shift_pt.y;
TranslatePt(pt, strength, shift_pt) ==
    Point(Add(pt.x, Add(strength, shift_pt.x)), Add(pt.y, Add(strength, shift_pt.y)))

\* while i != j { translate points[i]; i = if i < last { i + 1 } else { 0 }; }
RECURSIVE TranslateRun(_, _, _)
TranslateRun(st, strength, shift_pt) ==
    IF st.i = st.j THEN st
    ELSE TranslateRun(
             [st EXCEPT !.points[st.i + 1] = TranslatePt(@, strength, shift_pt),
                        !.visits[st.i + 1] = @ + 1,
                        !.i = Advance(st.i, st.last)],
             strength, shift_pt)

\* The part of an iteration after the outgoing direction is known.
AtVertex(st, out_pt, out_len, cff_, strength) ==
    LET st1 ==
            IF st.in_len # Zero
            THEN LET stk == IF st.k = <<>>
                            THEN [st EXCEPT !.k = <<st.i>>,
                                            !.anchor_pt = st.in_pt,
                                            !.anchor_len = st.in_len]
                            ELSE st
                     shift_pt == ShiftPt(st.in_pt, st.in_len, out_pt, out_len,
                                         cff_, strength)
                 IN  TranslateRun(
                         [stk EXCEPT !.corner =
                             <<[i |-> st.i, j |-> st.j, before |-> st.points,
                                in_pt |-> st.in_pt, in_len |-> st.in_len,
                                out_pt |-> out_pt, out_len |-> out_len]>>],
                         strength, shift_pt)
            ELSE [st EXCEPT !.i = st.j, !.corner = <<>>]
    IN  [st1 EXCEPT !.in_pt = out_pt, !.in_len = out_len,
                    !.j = Advance(st.j, st.last), !.iters = @ + 1]

\* One iteration of the outer while loop.
SweepStep(st, cff_, strength) ==
    IF st.k # <<st.j>>
    THEN LET x == Sub(st.points[st.j + 1].x, st.points[st.i + 1].x)
             y == Sub(st.points[st.j + 1].y, st.points[st.i + 1].y)
             len == Sqrt(Add(Mul(x, x), Mul(y, y)))
         IN  IF len # Zero
             THEN AtVertex(st, Point(Div(x, len), Div(y, len)), len, cff_, strength)
             ELSE [st EXCEPT !.j = Advance(st.j, st.last), !.iters = @ + 1,
                             !.corner = <<>>]
    ELSE AtVertex(st, st.anchor_pt, st.anchor_len, cff_, strength)

\* A sweep that leaves the closing point where it was.
ResyncNot(original, points) == points

\* if closed { c.points[num_points - 1] = c.points[0]; }
Resync(original, points) ==
    IF Closed(original) THEN [points EXCEPT ![Len(points)] = points[1]] ELSE points

RECURSIVE RunSweep(_, _, _)
RunSweep(st, cff_, strength) ==
    IF LoopCond(st) THEN RunSweep(SweepStep(st, cff_, strength), cff_, strength) ELSE st

\* The body of the for loop of embolden, for one contour.
EmboldenContour(c, cff_, strength) ==
    IF Len(c.points) = 0 THEN c
    ELSE [c EXCEPT !.points =
             Resync(c.points, RunSweep(SweepInit(c.points), cff_, strength).points)]

EmboldenAll(cs, cff_, strength) ==
    [n \in 1..Len(cs) |-> EmboldenContour(cs[n], cff_, strength)]

\* The first index after i, walking circularly from j, whose point differs
\* from points[i]; -1 when there is none.
RECURSIVE FirstDistinct(_, _, _, _)
FirstDistinct(points, last, i, j) ==
    IF j = i THEN -1
    ELSE IF points[j + 1] # points[i + 1] THEN j
    ELSE FirstDistinct(points, last, i, Advance(j, last))

Dist2(a, b) ==
    LET x == Sub(b.x, a.x)
        y == Sub(b.y, a.y)
    IN  Add(Mul(x, x), Mul(y, y))

\* Every edge the sweep measures has a rational length, so (x * x + y * y).sqrt()
\* is exact in the model.
ExactEdges(points) ==
    \/ points = <<>>
    \/ LET last == LastIndex(points)
       IN  \A i \in 0..last :
               LET j == FirstDistinct(points, last, i, Advance(i, last))
               IN  IF j < 0 THEN TRUE
                   ELSE HasSqrt(Dist2(points[i + 1], points[j + 1]))

ExactOutline(cs) == \A n \in 1..Len(cs) : ExactEdges(cs[n].points)

---------------------------------------------------------------------------
(* Outline::oblique.                                                       *)

\* if p.y != 0.0 { p.x += p.y * x_skew; }
ObliquePt(p, x_skew) ==
    IF p.y # Zero THEN Point(Add(p.x, Mul(p.y, x_skew)), p.y) ELSE p

ObliqueAll(cs, x_skew) ==
    [n \in 1..Len(cs) |->
        [cs[n] EXCEPT !.points = [m \in 1..Len(cs[n].points) |->
                                      ObliquePt(cs[n].points[m], x_skew)]]]

---------------------------------------------------------------------------
(* The recorder's methods, on the builder [contours, current_contour].     *)

Builder(cs, cc) == [contours |-> cs, current_contour |-> cc]

\* OutlineBuilder::new on an Outline without contours.
BuilderNew == Builder(<<>>, 1)

move_to(b, x, y) ==
    Builder(PushVerb(b.contours, b.current_contour, "MoveTo", <<Point(x, y)>>),
            b.current_contour)

line_to(b, x, y) ==
    Builder(PushVerb(b.contours, b.current_contour, "LineTo", <<Point(x, y)>>),
            b.current_contour)

\* A quad_to that records the end point before the control point.
quad_to_swapped(b, x1, y1, x, y) ==
    Builder(PushVerb(b.contours, b.current_contour, "QuadTo",
                     <<Point(x, y), Point(x1, y1)>>),
            b.current_contour)

quad_to(b, x1, y1, x, y) ==
    Builder(PushVerb(b.contours, b.current_contour, "QuadTo",
                     <<Point(x1, y1), Point(x, y)>>),
            b.current_contour)

curve_to(b, x1, y1, x2, y2, x, y) ==
    Builder(PushVerb(b.contours, b.current_contour, "CurveTo",
                     <<Point(x1, y1), Point(x2, y2), Point(x, y)>>),
            b.current_contour)

close(b) ==
    Builder(PushVerb(b.contours, b.current_contour, "Close", <<>>),
            b.current_contour + 1)

\* The source calling one method of the sink.
Apply(b, c) ==
    LET a == c.args
    IN  CASE c.verb = "MoveTo" -> move_to(b, a[1], a[2])
          [] c.verb = "LineTo" -> line_to(b, a[1], a[2])
          [] c.verb = "QuadTo" -> quad_to(b, a[1], a[2], a[3], a[4])
          [] c.verb = "CurveTo" -> curve_to(b, a[1], a[2], a[3], a[4], a[5], a[6])
          [] c.verb = "Close" -> close(b)

RECURSIVE RecordAll(_, _)
RecordAll(b, cs) == IF cs = <<>> THEN b ELSE RecordAll(Apply(b, Head(cs)), Tail(cs))

\* Outline::new: the contours after the source has been drained.
NewContours(cs) == RecordAll(BuilderNew, cs).contours

---------------------------------------------------------------------------
(* Bounds and inputs.                                                      *)

MaxCalls == 3        \* calls fed to the recorder
MaxPts == 4          \* points of a contour drawn from the grid
MaxOps == 3          \* operations on one Outline
MaxEmb == 2          \* successive embolden calls

\* The points the source feeds to the recorder.
RecPts == {P(0, 1), P(1, 0)}

\* Every two points of the grid are at an integer distance (3, 4 or 5).
GridPts == {P(x, y) : x \in {0, 3}, y \in {0, 4}}
GridContours == UNION {[1..m -> GridPts] : m \in 0..MaxPts}

Strengths == {F(-2), F(0), F(1), F(5)}
Skews == {<<1, 4>>, F(-1)}

MoveToCall(p) == Call("MoveTo", <<p.x, p.y>>)
LineToCall(p) == Call("LineTo", <<p.x, p.y>>)
QuadToCall(p1, p) == Call("QuadTo", <<p1.x, p1.y, p.x, p.y>>)
CurveToCall(p1, p2, p) == Call("CurveTo", <<p1.x, p1.y, p2.x, p2.y, p.x, p.y>>)
CloseCall == Call("Close", <<>>)

\* The calls of a source that draws the polygon pts and closes it.
PolyCalls(pts) ==
    [n \in 1..(Len(pts) + 1) |->
        IF n = Len(pts) + 1 THEN CloseCall
        ELSE IF n = 1 THEN MoveToCall(pts[n]) ELSE LineToCall(pts[n])]

SquarePts == <<P(0, 0), P(10, 0), P(10, 10), P(0, 10), P(0, 0)>>
TrianglePts == <<P(0, 0), P(3, 0), P(0, 4), P(0, 0)>>
BoxPts == <<P(3, 4), P(6, 4), P(6, 8), P(3, 8), P(3, 4)>>
\* A square of side 5 whose edges are not parallel to the axes.
TiltedPts == <<P(0, 0), P(3, 4), P(-1, 7), P(-4, 3), P(0, 0)>>

CurvyCalls ==
    <<MoveToCall(P(-3, 0)), QuadToCall(P(-3, -4), P(0, -4)),
      CurveToCall(P(3, -4), P(3, 0), P(0, 0)), LineToCall(P(-3, 0)), CloseCall>>

SampleCalls ==
    {PolyCalls(SquarePts), PolyCalls(BoxPts), PolyCalls(TrianglePts) \o PolyCalls(BoxPts),
     CurvyCalls, CurvyCalls \o PolyCalls(<<P(3, 4)>>), PolyCalls(<<P(-3, -4), P(-3, -8)>>)}

EmbCalls ==
    {PolyCalls(c) : c \in GridContours}
        \cup {PolyCalls(c) \o PolyCalls(TrianglePts) : c \in GridContours}
        \cup {PolyCalls(TrianglePts) \o PolyCalls(c) : c \in GridContours}
        \cup {PolyCalls(SquarePts)}

Idle == [stage |-> "idle"]

---------------------------------------------------------------------------
(* Operations on a constructed Outline.                                    *)

\* A mutation that leaves the cached box in place.
InvalidateNot(b) == b

\* self.bbox.set(None)
Invalidate(b) == <<>>

Last(h) == h[Len(h)]
Did(name) == hist # <<>> /\ Last(hist).name = name

\* Outline::bbox
Bbox ==
    /\ ret' = IF bbox # <<>> THEN bbox ELSE <<ComputeBBox(contours)>>
    /\ bbox' = IF bbox # <<>> THEN bbox ELSE <<ComputeBBox(contours)>>
    /\ hist' = Append(hist, [name |-> "bbox", arg |-> ret'])
    /\ prev' = contours
    /\ UNCHANGED <<contours, cff, current_contour, calls, sink, sw>>

\* Outline::embolden
Embolden(strength) ==
    /\ ExactOutline(contours)
    /\ bbox' = Invalidate(bbox)
    /\ contours' = EmboldenAll(contours, cff, strength)
    /\ hist' = Append(hist, [name |-> "embolden", arg |-> strength])
    /\ prev' = contours
    /\ UNCHANGED <<cff, current_contour, calls, sink, ret, sw>>

\* Outline::oblique
Oblique(x_skew) ==
    /\ bbox' = Invalidate(bbox)
    /\ contours' = ObliqueAll(contours, x_skew)
    /\ hist' = Append(hist, [name |-> "oblique", arg |-> x_skew])
    /\ prev' = contours
    /\ UNCHANGED <<cff, current_contour, calls, sink, ret, sw>>

\* Outline::emit
Emit ==
    /\ sink' = EmitCalls(contours)
    /\ hist' = Append(hist, [name |-> "emit", arg |-> Zero])
    /\ prev' = contours
    /\ UNCHANGED <<contours, cff, bbox, current_contour, calls, ret, sw>>

\* An Outline built by Outline::new from the calls cs of the source.
Constructed(cs) ==
    /\ calls = cs
    /\ contours = NewContours(cs)
    /\ current_contour = RecordAll(BuilderNew, cs).current_contour
    /\ cff \in BOOLEAN
    /\ bbox = <<>>
    /\ sink = <<>>
    /\ ret = <<>>
    /\ hist = <<>>
    /\ prev = contours
    /\ sw = Idle

Init == \E cs \in SampleCalls : Constructed(cs)

Next ==
    /\ Len(hist) < MaxOps
    /\ \/ Bbox
       \/ \E s \in Strengths : Embolden(s)
       \/ \E k \in Skews : Oblique(k)
       \/ Emit

Spec == Init /\ [][Next]_vars

---------------------------------------------------------------------------
(* Successive embolden calls on the outlines drawn on the grid.            *)

InitEmb == \E cs \in EmbCalls : Constructed(cs)

NextEmb == Len(hist) < MaxEmb /\ \E s \in Strengths : Embolden(s)

SpecEmb == InitEmb /\ [][NextEmb]_vars

---------------------------------------------------------------------------
(* The recorder driven by a source, then emit.                             *)

Feed(b, c) ==
    /\ hist = <<>>
    /\ Len(calls) < MaxCalls
    /\ calls' = Append(calls, c)
    /\ contours' = b.contours
    /\ current_contour' = b.current_contour
    /\ prev' = contours
    /\ UNCHANGED <<cff, bbox, sink, ret, hist, sw>>

Builder0 == Builder(contours, current_contour)

MoveTo == \E p \in RecPts : Feed(move_to(Builder0, p.x, p.y), MoveToCall(p))
LineTo == \E p \in RecPts : Feed(line_to(Builder0, p.x, p.y), LineToCall(p))
QuadTo ==
    \E p1, p \in RecPts :
        Feed(quad_to(Builder0, p1.x, p1.y, p.x, p.y), QuadToCall(p1, p))
CurveTo ==
    \E p1, p2, p \in RecPts :
        Feed(curve_to(Builder0, p1.x, p1.y, p2.x, p2.y, p.x, p.y), CurveToCall(p1, p2, p))
Close == Feed(close(Builder0), CloseCall)

EmitOnce == hist = <<>> /\ Emit

InitRec == Constructed(<<>>)

NextRec == MoveTo \/ LineTo \/ QuadTo \/ CurveTo \/ Close \/ EmitOnce

SpecRec == InitRec /\ [][NextRec]_vars

---------------------------------------------------------------------------
(* The embolden sweep over one contour, one loop iteration per step.       *)

InitSweep ==
    /\ \E pts \in GridContours \cup {SquarePts, TiltedPts} : \E s \in Strengths :
           sw = [stage |-> "start", strength |-> s, orig |-> pts, st |-> <<>>]
    /\ cff \in BOOLEAN
    /\ calls = <<>>
    /\ contours = <<>>
    /\ current_contour = 1
    /\ bbox = <<>>
    /\ sink = <<>>
    /\ ret = <<>>
    /\ hist = <<>>
    /\ prev = <<>>

\* for c in &mut self.contours: the contour is skipped when it has no point,
\* and the locals are set otherwise.
SweepBegin ==
    /\ sw.stage = "start"
    /\ sw' = IF Len(sw.orig) = 0
             THEN [sw EXCEPT !.stage = "done"]
             ELSE [sw EXCEPT !.stage = "loop", !.st = SweepInit(sw.orig)]
    /\ UNCHANGED <<contours, cff, bbox, current_contour, calls, sink, ret, hist, prev>>

SweepIter ==
    /\ sw.stage = "loop"
    /\ LoopCond(sw.st)
    /\ sw' = [sw EXCEPT !.st = SweepStep(sw.st, cff, sw.strength)]
    /\ UNCHANGED <<contours, cff, bbox, current_contour, calls, sink, ret, hist, prev>>

SweepEnd ==
    /\ sw.stage = "loop"
    /\ ~LoopCond(sw.st)
    /\ sw' = [sw EXCEPT !.stage = "done",
                        !.st.points = Resync(sw.orig, sw.st.points)]
    /\ UNCHANGED <<contours, cff, bbox, current_contour, calls, sink, ret, hist, prev>>

NextSweep == SweepBegin \/ SweepIter \/ SweepEnd

SpecSweep == InitSweep /\ [][NextSweep]_vars

---------------------------------------------------------------------------
(* Claims on the life of one Outline (Spec).                               *)

PosInf == <<1, 0>>
NegInf == <<-1, 0>>
SentinelBox == [x_min |-> PosInf, y_min |-> PosInf, x_max |-> NegInf, y_max |-> NegInf]
Box(x0, y0, x1, y1) == [x_min |-> F(x0), y_min |-> F(y0), x_max |-> F(x1), y_max |-> F(y1)]

\* C1: bbox() returns the fold of extend_by over all points started from the
\* sentinel box (+inf, +inf, -inf, -inf): the exact minimum and maximum of
\* the points' coordinates, and the sentinel box when there is no point.
C1_BBoxIsFoldFromSentinel ==
    Did("bbox") => ret = <<FoldBBox(SentinelBox, FlatPoints(contours))>>

\* C4: every bbox() call returns what a computation from scratch over the
\* current points returns, a cached box is the box of the current points
\* (so none cached before a mutation survives it), and bbox() calls with no
\* mutation between them return the same value.
C4_CacheCoherent ==
    /\ bbox # <<>> => bbox = <<ComputeBBox(contours)>>
    /\ Did("bbox") => ret = <<ComputeBBox(contours)>> /\ bbox = ret /\ prev = contours
    /\ \A m, n \in 1..Len(hist) :
           (/\ m < n
            /\ hist[m].name = "bbox"
            /\ hist[n].name = "bbox"
            /\ \A l \in m..n : hist[l].name \in {"bbox", "emit"})
               => hist[m].arg = hist[n].arg

\* A box is cached, the outline is emboldened, and bbox() returns another box.
C4_Witness ==
    /\ Len(hist) = 3
    /\ hist[1].name = "bbox"
    /\ hist[2].name = "embolden"
    /\ hist[3].name = "bbox"
    /\ hist[1].arg # hist[3].arg

IsSquareRun(strength) ==
    /\ calls = PolyCalls(SquarePts)
    /\ hist # <<>>
    /\ hist[1] = [name |-> "embolden", arg |-> strength]

\* C5 as stated: on the square with cff = false, bbox() is (0,0,10,10)
\* before emboldening, and after embolden(1.0) its width and height are
\* larger than before.
C5_SquareBBoxGrows ==
    (calls = PolyCalls(SquarePts) /\ ~cff) =>
        /\ (Len(hist) = 1 /\ Did("bbox")) => ret = <<Box(0, 0, 10, 10)>>
        /\ (Len(hist) = 2 /\ IsSquareRun(One) /\ Did("bbox")) =>
               /\ Lt(F(10), width(ret[1]))
               /\ Lt(F(10), height(ret[1]))

\* C5 amended: on the square with cff = false, bbox() is (0,0,10,10) before
\* emboldening; embolden(1.0) moves the corners to (2,2), (10,2), (10,10),
\* (2,10), so the extent of the points shrinks from 10 to 8 on both axes,
\* and bbox() afterwards is no wider and no higher than before.
C5_SquareShrinks ==
    (calls = PolyCalls(SquarePts) /\ ~cff) =>
        /\ (Len(hist) = 1 /\ Did("bbox")) => ret = <<Box(0, 0, 10, 10)>>
        /\ (Len(hist) = 2 /\ IsSquareRun(One) /\ Did("bbox")) =>
               /\ contours[1].points = <<P(2, 2), P(10, 2), P(10, 10), P(2, 10), P(2, 2)>>
               /\ FoldBBox(SentinelBox, contours[1].points) = Box(2, 2, 10, 10)
               /\ Le(width(ret[1]), F(10))
               /\ Le(height(ret[1]), F(10))

C5_Witness ==
    calls = PolyCalls(SquarePts) /\ ~cff /\ Len(hist) = 2 /\ IsSquareRun(One) /\ Did("bbox")

\* The translation of point n of contour c between two outlines.
Moved(before, after, c, n) ==
    Point(Sub(after[c].points[n].x, before[c].points[n].x),
          Sub(after[c].points[n].y, before[c].points[n].y))

\* C6: on the closed square, embolden(1.0) translates every vertex by
\* (1 + a, 1 + b) under one setting of the winding flag and by (1 - a, 1 - b)
\* under the other, with a and b not zero.
C6_WindingMirrorsShift ==
    (Len(hist) = 1 /\ IsSquareRun(One)) =>
        LET other == EmboldenAll(prev, ~cff, One)
        IN  \A n \in 1..Len(SquarePts) :
                LET mine == Moved(prev, contours, 1, n)
                    theirs == Moved(prev, other, 1, n)
                    a == Sub(mine.x, One)
                    b == Sub(mine.y, One)
                IN  /\ a # Zero /\ b # Zero
                    /\ theirs.x = Sub(One, a)
                    /\ theirs.y = Sub(One, b)

C6_Witness == Len(hist) = 1 /\ IsSquareRun(One) /\ contours # prev

---------------------------------------------------------------------------
(* Claims on successive embolden calls (SpecEmb).                          *)

SamePoint(points) == \A n \in 1..Len(points) : points[n] = points[1]
Distinct(points) == Cardinality({points[n] : n \in 1..Len(points)})

\* C3: a contour with more than one point whose first point equals its last
\* point before embolden(s) has them equal after it, for every strength and
\* after every successive call, and keeps its number of points.
C3_ClosurePreserved ==
    Did("embolden") =>
        /\ Len(contours) = Len(prev)
        /\ \A n \in 1..Len(prev) :
               /\ Len(contours[n].points) = Len(prev[n].points)
               /\ Closed(prev[n].points) => Closed(contours[n].points)

\* A closed contour with three distinct points has been moved by a second
\* embolden call.
C3_Witness ==
    /\ Len(hist) = 2
    /\ \E n \in 1..Len(prev) :
           /\ Closed(prev[n].points)
           /\ Distinct(prev[n].points) >= 3
           /\ contours[n].points[1] # prev[n].points[1]
           /\ prev[n].points # NewContours(calls)[n].points

\* C7: embolden(0.0) leaves every point of every contour and every verb
\* sequence as it was.
C7_ZeroStrengthKeepsGeometry ==
    (Did("embolden") /\ Last(hist).arg = Zero) => contours = prev

\* embolden(0.0) has run over an outline with a corner that is no reversal
\* and with a closed contour.
C7_Witness ==
    /\ Did("embolden")
    /\ Last(hist).arg = Zero
    /\ \E n \in 1..Len(prev) : Closed(prev[n].points) /\ Distinct(prev[n].points) >= 3
    /\ \E n \in 1..Len(prev) : ~Closed(prev[n].points) /\ Distinct(prev[n].points) >= 3

Degenerate(points) == Len(points) <= 1 \/ SamePoint(points)

\* C8: a contour with no point, with one point, or with all points
\* coincident has the same points after embolden(s) as before, for every
\* strength and flag and whatever the other contours are.
C8_DegenerateUntouched ==
    Did("embolden") =>
        \A n \in 1..Len(prev) :
            Degenerate(prev[n].points) => contours[n] = prev[n]

\* A contour of several coincident points stays while the other contour of
\* the outline is moved by a non-zero strength.
C8_Witness ==
    /\ Did("embolden")
    /\ Last(hist).arg # Zero
    /\ Len(prev) = 2
    /\ \E n \in 1..2 : Len(prev[n].points) >= 2 /\ SamePoint(prev[n].points)
    /\ \E n \in 1..2 : contours[n] # prev[n]

---------------------------------------------------------------------------
(* Claims on the sweep over one contour (SpecSweep).                       *)

Sweeping == sw.stage \in {"loop", "done"} /\ Len(sw.orig) > 0

\* The indices of the sweep range, as indices of the sequence of points.
SweepRange == 1..(sw.st.last + 1)

\* C9: the sweep ends within two turns of the leading index, translates no
\* point twice, and when it has ended it has translated every point of the
\* range [0, last] once if the range holds two distinct points, and no
\* point otherwise; the closing point outside the range is not translated.
C9_SweepVisitsOnce ==
    Sweeping =>
        /\ sw.st.iters <= 2 * (sw.st.last + 1)
        /\ \A n \in 1..Len(sw.orig) : sw.st.visits[n] <= 1
        /\ \A n \in (1..Len(sw.orig)) \ SweepRange : sw.st.visits[n] = 0
        /\ sw.stage = "done" =>
               \A n \in SweepRange :
                   sw.st.visits[n] =
                       IF Cardinality({sw.orig[m] : m \in SweepRange}) >= 2 THEN 1 ELSE 0

\* The sweep has ended over a contour that repeats a point next to itself
\* inside the range and has three distinct points.
C9_Witness ==
    /\ Sweeping
    /\ sw.stage = "done"
    /\ Distinct(sw.orig) >= 3
    /\ \E n \in SweepRange : n + 1 \in SweepRange /\ sw.orig[n] = sw.orig[n + 1]
    /\ \A n \in SweepRange : sw.st.visits[n] = 1

AtCorner == sw.stage = "loop" /\ sw.st.corner # <<>>
Corner == sw.st.corner[1]
CornerD == Dot(Corner.in_pt, Corner.out_pt)
CornerQ == CrossQ(Corner.in_pt, Corner.out_pt, cff)
CornerLen == FMin(Corner.in_len, Corner.out_len)
CornerSum == RotatedSum(Corner.in_pt, Corner.out_pt, cff)

Scaled(p, f) == Point(Mul(p.x, f), Mul(p.y, f))

\* The shift the corner rule gives: the rotated sum scaled by
\* strength / (d + 1), or by len / q when strength * q > len * (d + 1).
CornerShift ==
    IF Lt(Threshold, CornerD)
    THEN IF Le(Mul(sw.strength, CornerQ), Mul(CornerLen, Add(CornerD, One)))
         THEN Scaled(CornerSum, Div(sw.strength, Add(CornerD, One)))
         ELSE Scaled(CornerSum, Div(CornerLen, CornerQ))
    ELSE PointDefault

RECURSIVE RunIdx(_, _, _)
RunIdx(i, j, last) == IF i = j THEN {} ELSE {i + 1} \cup RunIdx(Advance(i, last), j, last)

\* Every point of the run that ends at the corner has been translated by
\* (strength + shift.x, strength + shift.y).
RunMovedBy(shift) ==
    \A n \in RunIdx(Corner.i, Corner.j, sw.st.last) :
        /\ sw.st.points[n].x = Add(Corner.before[n].x, Add(sw.strength, shift.x))
        /\ sw.st.points[n].y = Add(Corner.before[n].y, Add(sw.strength, shift.y))

RightAngleOutward == CornerD = Zero /\ Lt(Zero, CornerQ)

\* C10 as stated: the points are translated by the strength plus the shift
\* of the corner rule; at a right-angle corner with q > 0 each component of
\* the shift has magnitude min(strength, len) and does not exceed len; at a
\* near-reversal corner the shift is zero.
C10_MiterClampMagnitude ==
    AtCorner =>
        /\ RunMovedBy(CornerShift)
        /\ RightAngleOutward =>
               /\ FAbs(CornerShift.x) = FMin(sw.strength, CornerLen)
               /\ FAbs(CornerShift.y) = FMin(sw.strength, CornerLen)
               /\ Le(FAbs(CornerShift.x), CornerLen)
               /\ Le(FAbs(CornerShift.y), CornerLen)
        /\ Le(CornerD, Threshold) => CornerShift = PointDefault /\ RunMovedBy(PointDefault)

AxisParallel(p) == p.x = Zero \/ p.y = Zero

\* C10 amended: the points are translated by the strength plus the shift of
\* the corner rule; at a right-angle corner with q > 0 the shift is the
\* rotated sum scaled by min(strength, len), and when the strength is not
\* negative and both edges are parallel to the axes each of its components
\* has magnitude min(strength, len) and does not exceed len; at a
\* near-reversal corner the shift is zero.
C10_MiterClamp ==
    AtCorner =>
        /\ RunMovedBy(CornerShift)
        /\ RightAngleOutward =>
               /\ RunMovedBy(Scaled(CornerSum, FMin(sw.strength, CornerLen)))
               /\ (/\ Le(Zero, sw.strength)
                   /\ AxisParallel(Corner.in_pt)
                   /\ AxisParallel(Corner.out_pt)) =>
                      /\ FAbs(CornerShift.x) = FMin(sw.strength, CornerLen)
                      /\ FAbs(CornerShift.y) = FMin(sw.strength, CornerLen)
                      /\ Le(FAbs(CornerShift.x), CornerLen)
                      /\ Le(FAbs(CornerShift.y), CornerLen)
        /\ Le(CornerD, Threshold) => CornerShift = PointDefault /\ RunMovedBy(PointDefault)

\* A right-angle corner with q > 0 where the strength exceeds the shorter
\* edge, so the miter is clamped.
C10_Witness ==
    /\ AtCorner
    /\ RightAngleOutward
    /\ Lt(CornerLen, sw.strength)
    /\ AxisParallel(Corner.in_pt)
    /\ AxisParallel(Corner.out_pt)

---------------------------------------------------------------------------
(* Claims on the recorder and the emitter (SpecRec).                       *)

\* C2: emit on the Outline recorded from any sequence of calls makes the
\* same calls on its sink, in the same order and with the same coordinates.
C2_RoundTrip == Did("emit") => sink = calls

\* The source closed a contour before any other call and made a QuadTo call
\* after its last close().
C2_Witness ==
    /\ Did("emit")
    /\ Len(calls) = MaxCalls
    /\ calls[1].verb = "Close"
    /\ Last(calls).verb = "QuadTo"
    /\ Last(calls).args[1] # Last(calls).args[3]
    /\ Len(contours) >= 2

=============================================================================
